---- MODULE Spec2Model ----
(***************************************************************************)
(* TSar: MPEG-2 transport stream demultiplexer and PAF index writer.       *)
(*                                                                         *)
(* Bytes are integers 0..255 and byte strings are sequences of bytes.      *)
(* Python integers are unbounded; every integer that may exceed 31 bits    *)
(* (timestamps, 32/40/64-bit words) is represented by the set of positions *)
(* of its one bits, so that shifts, masks and ors are exact.               *)
(***************************************************************************)
EXTENDS Integers, Sequences, FiniteSets, TLC

VARIABLES
    \* Demux.index_streams (muxctx.py)
    pc,             \* "loop" | "drain" | "done" | "raised"
    err,            \* the exception that ended the run, "" if none
    excluded_pids,  \* Demux.excluded_pids, the caller-supplied list
    pck_buffer,     \* the dict pck_buffer, in insertion order
    drain_i,        \* position of the end-of-stream loop in pck_buffer.items()
    pafg_pids,      \* PAFGenerator._pids
    files,          \* the output folder: PID -> bytes of {PID:04X}.paf
    n_read,         \* number of packets pulled from the stream
    seen,           \* history: PID -> packets of that PID pulled so far
    last,           \* history: the last packet pulled and what was done with it
    \* PAF.gen_packet_attribute (muxctx.py), reading one file of the folder
    rd_pc,          \* "closed" | "open" | "done" | "raised"
    rd_pid,         \* the PID whose file is read
    rd_size,        \* the size of one f.read()
    rd_fpos,        \* the position of the file handle
    rd_buffer,      \* the local buffer
    rd_out,         \* the PacketAttributes yielded so far
    w_log,          \* history: the (pts, dts, tp_count, pes_len) handed to the writer
    \* PESPacket._parse_xts (pespacket.py) on one timestamp field
    xts_pc,         \* "in" | "out"
    xts_in,         \* the five bytes
    xts_out,        \* the value parsed
    \* streams.py: one stream object over one file
    ts_file,        \* the file: its length and where its bytes 'G' are
    ts_cls,         \* the class instantiated
    ts_pc,          \* "off" | "new" | "ready" | "failed" | "yielded" | "stopped" | "raised"
    fs_offset,      \* _fs_offset
    pck_cls,        \* _pck_cls
    id_exc,         \* history: the exception identify() raised in __init__
    id_size,        \* history: pck_size as identify() computed it, 0 if it did not
    gp_fpos,        \* gen_packets: position of file_hdl
    gp_base,        \* gen_packets: file offset of buffer[0]
    gp_len,         \* gen_packets: len(buffer)
    gp_count,       \* history: number of packets yielded
    gp_last,        \* history: file offset of the last packet yielded
    gp_err,         \* the exception that ended gen_packets, "" if none
    \* PAFGenerator.add_packet (muxctx.py) called by any caller
    ap_pc,          \* "off" | "run"
    ap_log,         \* history: the calls made, with their outcome
    \* PESPacket (pespacket.py): the header properties of one PES
    px_pc,          \* "off" | "view"
    px_in,          \* the shape the bytes were built from
    px_data,        \* PESPacket.data
    px_stuffing,    \* what pes.stuffing gave, Unread before
    px_packet_data, \* what pes.packet_data gave, Unread before
    \* Packetizer (streams.py)
    pk_pc,          \* "off" | "run" | "raised" | "end"
    pk_buffer,      \* Packetizer._buffer
    pk_fed,         \* history: number of packets sent
    pk_last         \* history: the last send and what it gave

demuxVars == <<pc, err, excluded_pids, pck_buffer, drain_i, n_read, seen, last>>

writerVars == <<pafg_pids, files>>

readerVars == <<rd_pc, rd_pid, rd_size, rd_fpos, rd_buffer, rd_out, w_log>>

xtsVars == <<xts_pc, xts_in, xts_out>>

streamVars == <<ts_file, ts_cls, ts_pc, fs_offset, pck_cls, id_exc, id_size,
                gp_fpos, gp_base, gp_len, gp_count, gp_last, gp_err>>

addVars == <<ap_pc, ap_log>>

pesVars == <<px_pc, px_in, px_data, px_stuffing, px_packet_data>>

pkVars == <<pk_pc, pk_buffer, pk_fed, pk_last>>

vars == <<demuxVars, writerVars, readerVars, xtsVars, streamVars, addVars,
          pesVars, pkVars>>

-----------------------------------------------------------------------------
(* Integers as sets of bit positions *)

\* the bits of a byte, tabulated
BYTE_BITS == [n \in 0..255 |-> {i \in 0..7 : (n \div (2^i)) % 2 = 1}]

Bits(n) == IF n < 256 THEN BYTE_BITS[n]
           ELSE {i \in 0..30 : (n \div (2^i)) % 2 = 1}

RECURSIVE Val(_)
Val(S) == IF S = {} THEN 0
          ELSE LET i == CHOOSE x \in S : TRUE IN (2^i) + Val(S \ {i})

Shl(S, k) == {i + k : i \in S}

Shr(S, k) == {i - k : i \in {j \in S : j >= k}}

Mask(w) == 0..(w - 1)

\* exact addition of two non-negative integers
RECURSIVE Add(_, _)
Add(A, B) == IF A \cap B = {} THEN A \cup B
             ELSE Add((A \cup B) \ (A \cap B), Shl(A \cap B, 1))

\* byte k (0 = least significant) of an integer
ByteAt(S, k) == Val({i - 8 * k : i \in {j \in S : j \in (8 * k)..(8 * k + 7)}})

\* a & b on small integers
BAND(a, b) == Val(Bits(a) \cap Bits(b))

\* struct.pack(">I", x), struct.pack(">H", x): None when x is out of range
pack_I(S) == <<ByteAt(S, 3), ByteAt(S, 2), ByteAt(S, 1), ByteAt(S, 0)>>

pack_H(n) == <<n \div 256, n % 256>>

\* struct.unpack(">I", b)[0] of a 4-byte string
unpack_I(b) == Shl(Bits(b[1]), 24) \cup Shl(Bits(b[2]), 16)
                 \cup Shl(Bits(b[3]), 8) \cup Bits(b[4])

\* b[i:j] of Python on a 1-based sequence (0-based bounds, clipped)
Slice(b, i, j) == SubSeq(b, i + 1, IF j > Len(b) THEN Len(b) ELSE j)

RECURSIVE Join(_)
Join(ss) == IF ss = <<>> THEN <<>> ELSE Head(ss) \o Join(Tail(ss))

-----------------------------------------------------------------------------
(* tspacket.py: TSPacket, a view on the bytes of one packet.  The packets   *)
(* of the model keep the 4-byte header and carry a short body.              *)

sync_byte(tp) == tp[1]

payload_unit_start_indicator(tp) == BAND(tp[2], 64) > 0

PID(tp) == Val(Shl(Bits(tp[2]) \cap Bits(31), 8) \cup Bits(tp[3]))

\* the two AFC bits; AdaptationFieldControl(0) raises (consts.py)
afc_bits(tp) == BAND(tp[4] \div 16, 3)

has_adaptation(tp) == BAND(afc_bits(tp), 2) # 0

has_payload(tp) == BAND(afc_bits(tp), 1) # 0

\* AdaptationField.size() == data[0] + 1 of the bytes after the header
adaptation_field_size(tp) == tp[5] + 1

payload(tp) == LET offset == IF has_adaptation(tp) THEN adaptation_field_size(tp) ELSE 0
               IN  Slice(tp, 4 + offset, Len(tp))

-----------------------------------------------------------------------------
(* pespacket.py: PESPacket *)

STREAM_IDS_NO_PES_PACKET_HEADER == {188, 190, 191, 240, 241, 242, 248, 255}

packet_start_code_prefix(data) == data[1] * 65536 + data[2] * 256 + data[3]

stream_id(data) == data[4]

pes_packet_length(data) == data[5] * 256 + data[6]

is_video(data) == BAND(stream_id(data), 240) = 224

\* PESPacket.__init__: the view, or the assertion that failed
PESPacket(data) ==
    IF Len(data) < 6 THEN [ok |-> FALSE, err |-> "AssertionError", data |-> <<>>]
    ELSE IF packet_start_code_prefix(data) # 1
         THEN [ok |-> FALSE, err |-> "AssertionError", data |-> <<>>]
    ELSE IF ~is_video(data)
         THEN IF Len(data) < pes_packet_length(data) + 6
              THEN [ok |-> FALSE, err |-> "AssertionError", data |-> <<>>]
              ELSE [ok |-> TRUE, err |-> "",
                    data |-> Slice(data, 0, pes_packet_length(data) + 6)]
    ELSE [ok |-> TRUE, err |-> "", data |-> data]

\* the result of a property: a value, None, or an exception
OptVal(v) == [st |-> "val", v |-> v]
OptNone == [st |-> "none", v |-> {}]
OptRaise == [st |-> "raise", v |-> {}]

pts_dts_flags(data) == BAND(data[8] \div 64, 3)

parse_xts(d) ==
    Shl(Bits(d[1]) \cap Bits(14), 30)
      \cup Shl(Bits(d[2]) \cap Bits(255), 22)
      \cup Shl(Bits(d[3]) \cap Bits(254), 14)
      \cup Shl(Bits(d[4]) \cap Bits(255), 7)
      \cup Shr(Bits(d[5]) \cap Bits(254), 1)

pes_pts(data) ==
    IF stream_id(data) \in STREAM_IDS_NO_PES_PACKET_HEADER THEN OptNone
    ELSE IF Len(data) < 8 THEN OptRaise
    ELSE IF pts_dts_flags(data) = 1 THEN OptRaise
    ELSE IF BAND(pts_dts_flags(data), 2) = 0 THEN OptNone
    ELSE IF Len(data) < 10 THEN OptRaise
    ELSE IF BAND(2, data[10] \div 16) = 0 THEN OptRaise
    ELSE IF Len(data) < 14 THEN OptRaise
    ELSE OptVal(parse_xts(Slice(data, 9, 14)))

pes_dts(data) ==
    IF stream_id(data) \in STREAM_IDS_NO_PES_PACKET_HEADER THEN OptNone
    ELSE IF Len(data) < 8 THEN OptRaise
    ELSE IF pts_dts_flags(data) = 1 THEN OptRaise
    ELSE IF BAND(pts_dts_flags(data), 1) = 0 THEN OptNone
    ELSE IF Len(data) < 10 THEN OptRaise
    ELSE IF BAND(2, data[10] \div 16) = 0 THEN OptRaise
    ELSE IF Len(data) < 19 THEN OptRaise
    ELSE OptVal(parse_xts(Slice(data, 14, 19)))

\* what PAFGenerator reads of a packet: packet.pts, packet.dts, len(packet)
PESView(data) == [pts |-> pes_pts(data), dts |-> pes_dts(data), len |-> Len(data)]

\* a Python bool used as an integer
bool_int(b) == IF b THEN 1 ELSE 0

\* a result that is a byte string, None, or the exception raised
BytesVal(b) == [st |-> "val", bytes |-> b]
BytesNone == [st |-> "none", bytes |-> <<>>]
BytesRaise(e) == [st |-> e, bytes |-> <<>>]

escr_flag(data) == BAND(data[8], 32) > 0

es_rate_flag(data) == BAND(data[8], 16) > 0

dsm_trick_mode_flag(data) == BAND(data[8], 8) > 0

additional_copy_info_flag(data) == BAND(data[8], 4) > 0

pes_crc_flag(data) == BAND(data[8], 2) > 0

pes_extension_flag(data) == BAND(data[8], 1) > 0

pes_header_data_length(data) == data[9]

\* sum([5 for flag in PTS_DTS_flags if flag in self.pts_dts_flags])
pts_dts_offset(data) ==
    5 * Cardinality({f \in {1, 2} : BAND(pts_dts_flags(data), f) = f})

escr_offset(data) == 6 * bool_int(escr_flag(data)) + pts_dts_offset(data)

\* line 139: the three bytes are counted under escr_flag
es_rate_offset(data) == 3 * bool_int(escr_flag(data)) + escr_offset(data)

dsm_trick_mode_offset(data) ==
    1 * bool_int(dsm_trick_mode_flag(data)) + es_rate_offset(data)

additional_copy_info_offset(data) ==
    1 * bool_int(additional_copy_info_flag(data)) + dsm_trick_mode_offset(data)

previous_pes_packet_crc_offset(data) ==
    2 * bool_int(pes_crc_flag(data)) + additional_copy_info_offset(data)

\* PESPacket.pes_extension: the bytes of the extension, None without the
\* flag; data[k] past the end raises IndexError
pes_extension(data) ==
    LET offset == previous_pes_packet_crc_offset(data)
        at(k) == data[9 + offset + k + 1]
        has(k) == 9 + offset + k < Len(data)
        l1 == 1 + 16 * bool_int(BAND(at(0), 128) # 0)
        l2 == IF BAND(at(0), 64) # 0 THEN l1 + at(l1) + 1 ELSE l1
        l3 == l2 + 2 * bool_int(BAND(at(0), 32) # 0) + 2 * bool_int(BAND(at(0), 16) # 0)
        l4 == IF BAND(at(0), 1) # 0 THEN l3 + BAND(127, at(l3)) ELSE l3
    IN IF ~pes_extension_flag(data) THEN BytesNone
       ELSE IF ~has(0) THEN BytesRaise("IndexError")
       ELSE IF BAND(at(0), 64) # 0 /\ ~has(l1) THEN BytesRaise("IndexError")
       ELSE IF BAND(at(0), 1) # 0 /\ ~has(l3) THEN BytesRaise("IndexError")
       ELSE IF BAND(at(0), 1) # 0 /\ BAND(at(l3), 128) = 0 THEN BytesRaise("AssertionError")
       ELSE BytesVal(Slice(data, 9 + offset, 9 + offset + l4))

\* PESPacket._pes_extension_offset where pes_extension returns
pes_extension_offset(data) ==
    Len(pes_extension(data).bytes) + previous_pes_packet_crc_offset(data)

\* what reading the flags and the extension raises before an offset is known
offset_raise(data) ==
    IF Len(data) < 8 THEN "IndexError"
    ELSE IF pts_dts_flags(data) = 1 THEN "AssertionError"
    ELSE IF pes_extension(data).st \in {"IndexError", "AssertionError"}
         THEN pes_extension(data).st
    ELSE ""

\* the stop of a slice, clipped
clip(a, b) == IF a < b THEN a ELSE b

\* PESPacket.stuffing
stuffing(data) ==
    IF stream_id(data) \in STREAM_IDS_NO_PES_PACKET_HEADER THEN BytesNone
    ELSE IF offset_raise(data) # "" THEN BytesRaise(offset_raise(data))
    ELSE IF Len(data) < 9 THEN BytesRaise("IndexError")
    ELSE IF 9 + pes_header_data_length(data) - (9 + pes_extension_offset(data)) < 0
         THEN BytesRaise("AssertionError")
    ELSE IF \E i \in (9 + pes_extension_offset(data) + 1)..
                     clip(9 + pes_header_data_length(data), Len(data)) : data[i] # 255
         THEN BytesRaise("AssertionError")
    ELSE BytesVal(Slice(data, 9 + pes_extension_offset(data),
                        9 + pes_header_data_length(data)))

\* PESPacket.packet_data
packet_data(data) ==
    IF stream_id(data) \in STREAM_IDS_NO_PES_PACKET_HEADER
    THEN BytesVal(Slice(data, 6, Len(data)))
    ELSE IF Len(data) < 7 THEN BytesRaise("IndexError")
    ELSE IF data[7] \div 64 # 2 THEN BytesRaise("AssertionError")
    ELSE IF stuffing(data).st # "val" THEN BytesRaise(stuffing(data).st)
    ELSE BytesVal(Slice(data, 6 + 3 + pes_extension_offset(data)
                                + Len(stuffing(data).bytes), Len(data)))

-----------------------------------------------------------------------------
(* muxctx.py: PAFGenerator *)

\* mutant: the PTS word masked to 38 bits instead of 39
encode_pts_dts_38(pts, dts) ==
    LET dhi == pack_I(Shr(dts, 1) \cap Mask(32))
        p40 == Shl(pts, 6) \cap Mask(38)
        b4  == Val(Bits(ByteAt(p40, 4)) \cup Shl(dts \cap {0}, 7))
    IN  dhi \o <<b4, ByteAt(p40, 3), ByteAt(p40, 2), ByteAt(p40, 1), ByteAt(p40, 0)>>

encode_pts_dts(pts, dts) ==
    LET dhi == pack_I(Shr(dts, 1) \cap Mask(32))
        p40 == Shl(pts, 6) \cap Mask(39)
        b4  == Val(Bits(ByteAt(p40, 4)) \cup Shl(dts \cap {0}, 7))
    IN  dhi \o <<b4, ByteAt(p40, 3), ByteAt(p40, 2), ByteAt(p40, 1), ByteAt(p40, 0)>>

\* the folder is a function from the PIDs that have a file to its bytes
file_exists(fs, pid) == pid \in DOMAIN fs

file_write(fs, pid, bytes) ==
    [q \in (DOMAIN fs) \cup {pid} |-> IF q = pid THEN bytes ELSE fs[q]]

\* mutant: the file opened 'wb' instead of 'ab'
file_append_trunc(fs, pid, bytes) == file_write(fs, pid, bytes)

file_append(fs, pid, bytes) ==
    file_write(fs, pid, (IF file_exists(fs, pid) THEN fs[pid] ELSE <<>>) \o bytes)

\* mutant: the record tag written before the timestamps are checked
append_index_file_tag(pid, packet, cnt, fs) ==
    IF packet.pts.st # "val"
    THEN [ok |-> FALSE, err |-> IF packet.pts.st = "none" THEN "AssertionError"
                                ELSE "PESError", fs |-> file_append(fs, pid, <<80>>)]
    ELSE IF packet.dts.st = "raise"
    THEN [ok |-> FALSE, err |-> "PESError", fs |-> fs]
    ELSE LET dts == IF packet.dts.st = "none" THEN packet.pts.v ELSE packet.dts.v
             temporal == encode_pts_dts(packet.pts.v, dts)
             spatial  == pack_H(cnt) \o Tail(pack_I(Bits(packet.len)))
         IN  IF \A i \in 1..Len(temporal) : temporal[i] = 0
             THEN [ok |-> FALSE, err |-> "AssertionError",
                   fs |-> file_append(fs, pid, <<80>>)]
             ELSE IF cnt > 65535
             THEN [ok |-> FALSE, err |-> "struct.error", fs |-> file_append(fs, pid, <<>>)]
             ELSE [ok |-> TRUE, err |-> "",
                   fs |-> file_append(fs, pid, <<80>> \o spatial \o temporal)]

\* PAFGenerator.append_index_file: the folder afterwards, or the exception
append_index_file(pid, packet, cnt, fs) ==
    IF packet.pts.st # "val"
    THEN [ok |-> FALSE, err |-> IF packet.pts.st = "none" THEN "AssertionError"
                                ELSE "PESError", fs |-> fs]
    ELSE IF packet.dts.st = "raise"
    THEN [ok |-> FALSE, err |-> "PESError", fs |-> fs]
    ELSE LET dts == IF packet.dts.st = "none" THEN packet.pts.v ELSE packet.dts.v
             temporal == encode_pts_dts(packet.pts.v, dts)
             spatial  == pack_H(cnt) \o Tail(pack_I(Bits(packet.len)))
         IN  IF \A i \in 1..Len(temporal) : temporal[i] = 0
             THEN [ok |-> FALSE, err |-> "AssertionError", fs |-> fs]
             ELSE IF cnt > 65535
             THEN [ok |-> FALSE, err |-> "struct.error", fs |-> file_append(fs, pid, <<>>)]
             ELSE [ok |-> TRUE, err |-> "",
                   fs |-> file_append(fs, pid, <<80>> \o spatial \o temporal)]

\* mutant: the header written on every call
add_packet_rewrite(pid, packet, cnt, pids, fs) ==
    LET r == append_index_file(pid, packet, cnt,
                               file_write(fs, pid, <<pid \div 256, BAND(pid, 255), 0>>))
    IN  [ok |-> r.ok, err |-> r.err, pids |-> pids \cup {pid}, fs |-> r.fs]

\* PAFGenerator.add_packet: _pids and the folder afterwards, or the exception
add_packet(pid, packet, cnt, pids, fs) ==
    IF ~(0 <= pid /\ pid <= 8191)
    THEN [ok |-> FALSE, err |-> "AssertionError", pids |-> pids, fs |-> fs]
    ELSE LET fs1 == IF pid \notin pids
                    THEN file_write(fs, pid, <<pid \div 256, BAND(pid, 255), 0>>)
                    ELSE fs
             r   == append_index_file(pid, packet, cnt, fs1)
         IN  [ok |-> r.ok, err |-> r.err, pids |-> pids \cup {pid}, fs |-> r.fs]

-----------------------------------------------------------------------------
(* muxctx.py: PacketAttribute, the reader's view of one 15-byte record *)

\* PacketAttribute._decode_timestamps: (dts, pts)
decode_timestamps(tc) ==
    LET dts == Add(Shl(unpack_I(Slice(tc, 0, 4)), 1), Bits(tc[5] \div 128))
        pts == Add(Shl(Bits(tc[5]) \cap Bits(127), 32), unpack_I(Slice(tc, 5, 9)))
    IN  [dts |-> dts, pts |-> Shr(pts, 6)]

\* PacketAttribute.from_pa
from_pa(bstr) ==
    IF ~(bstr[1] = 80 /\ Len(bstr) >= 15)
    THEN [ok |-> FALSE, tp_count |-> 0, pck_size |-> 0, pts |-> {}, dts |-> {}]
    ELSE LET t == decode_timestamps(Slice(bstr, 6, 15))
         IN  [ok |-> TRUE,
              tp_count |-> bstr[2] * 256 + bstr[3],
              pck_size |-> Val(Shr(unpack_I(Slice(bstr, 3, 7)), 8)),
              pts |-> t.pts, dts |-> t.dts]

-----------------------------------------------------------------------------
(* muxctx.py: Demux.  The dict pck_buffer is a sequence of [k, v] entries   *)
(* in insertion order, as a Python dict keeps them.                         *)

dict_has(d, k) == \E i \in 1..Len(d) : d[i].k = k

dict_get(d, k, default) ==
    IF dict_has(d, k) THEN d[CHOOSE i \in 1..Len(d) : d[i].k = k].v ELSE default

\* mutant: the group read but left in the dict
dict_pop_keep(d, k) == d

dict_pop(d, k) == SelectSeq(d, LAMBDA e : e.k # k)

dict_set(d, k, v) ==
    IF dict_has(d, k)
    THEN [i \in 1..Len(d) |-> IF d[i].k = k THEN [k |-> k, v |-> v] ELSE d[i]]
    ELSE Append(d, [k |-> k, v |-> v])

\* b''.join(map(lambda pib: pib.payload, grp))
join_payloads(grp) == Join([i \in 1..Len(grp) |-> payload(grp[i])])

\* PESPacket(b''.join(...)) of a group; a packet without payload has payload None
group_pes(grp) ==
    IF \E i \in 1..Len(grp) : ~has_payload(grp[i])
    THEN [ok |-> FALSE, err |-> "TypeError", data |-> <<>>]
    ELSE PESPacket(join_payloads(grp))

\* mutant: the packet put at the front of its PID's list
proc_transport_packet_front(tp, buffer) ==
    LET p    == PID(tp)
        grp  == dict_get(buffer, p, <<>>)
        emit == payload_unit_start_indicator(tp) /\ Len(grp) > 0
        b1   == IF emit THEN dict_pop(buffer, p) ELSE buffer
        pesp == group_pes(grp)
        b2   == IF ~dict_has(b1, p) THEN dict_set(b1, p, <<>>) ELSE b1
        b3   == dict_set(b2, p, <<tp>> \o dict_get(b2, p, <<>>))
    IN  IF emit /\ ~pesp.ok
        THEN [ok |-> FALSE, err |-> pesp.err, emitted |-> FALSE, pes |-> <<>>,
              cnt |-> 0, buffer |-> b1]
        ELSE [ok |-> TRUE, err |-> "", emitted |-> emit,
              pes |-> IF emit THEN pesp.data ELSE <<>>,
              cnt |-> IF emit THEN Len(grp) ELSE 0, buffer |-> b3]

\* mutant: the packet that closes a group is not buffered
proc_transport_packet_drop(tp, buffer) ==
    LET p    == PID(tp)
        grp  == dict_get(buffer, p, <<>>)
        emit == payload_unit_start_indicator(tp) /\ Len(grp) > 0
        b1   == IF emit THEN dict_pop(buffer, p) ELSE buffer
        pesp == group_pes(grp)
        b2   == IF ~dict_has(b1, p) THEN dict_set(b1, p, <<>>) ELSE b1
        b3   == IF emit THEN b2 ELSE dict_set(b2, p, Append(dict_get(b2, p, <<>>), tp))
    IN  IF emit /\ ~pesp.ok
        THEN [ok |-> FALSE, err |-> pesp.err, emitted |-> FALSE, pes |-> <<>>,
              cnt |-> 0, buffer |-> b1]
        ELSE [ok |-> TRUE, err |-> "", emitted |-> emit,
              pes |-> IF emit THEN pesp.data ELSE <<>>,
              cnt |-> IF emit THEN Len(grp) ELSE 0, buffer |-> b3]

\* Demux._proc_transport_packet: (pesp, cnt) and the dict afterwards; when the
\* PES constructor raises, the group has already been popped
proc_transport_packet(tp, buffer) ==
    LET p    == PID(tp)
        grp  == dict_get(buffer, p, <<>>)
        emit == payload_unit_start_indicator(tp) /\ Len(grp) > 0
        b1   == IF emit THEN dict_pop(buffer, p) ELSE buffer
        pesp == group_pes(grp)
        b2   == IF ~dict_has(b1, p) THEN dict_set(b1, p, <<>>) ELSE b1
        b3   == dict_set(b2, p, Append(dict_get(b2, p, <<>>), tp))
    IN  IF emit /\ ~pesp.ok
        THEN [ok |-> FALSE, err |-> pesp.err, emitted |-> FALSE, pes |-> <<>>,
              cnt |-> 0, buffer |-> b1]
        ELSE [ok |-> TRUE, err |-> "", emitted |-> emit,
              pes |-> IF emit THEN pesp.data ELSE <<>>,
              cnt |-> IF emit THEN Len(grp) ELSE 0, buffer |-> b3]

\* index_streams, line 112: the PIDs that are always excluded
HARD_EXCLUDED == {0, 31, 256, 4097, 8191}

SeqRange(s) == {s[i] : i \in 1..Len(s)}

\* mutant: the caller's list not added
excluded_set_hard(caller) == HARD_EXCLUDED

\* index_streams, lines 112-114
excluded_set(caller) == HARD_EXCLUDED \cup SeqRange(caller)

-----------------------------------------------------------------------------
(* The input of the demultiplexer: transport packets drawn from a menu.     *)

\* a packet as TSPacket reads it: sync byte, PUSI and PID, AFC, then the body
MkTS(pid, pusi, afc, body) ==
    <<71, pusi * 64 + pid \div 256, pid % 256, afc * 16>> \o body

\* payload bytes: the start of a video PES with PTS and DTS (19 bytes), of an
\* audio PES with PTS only that declares pes_packet_length = 10 (14 bytes), a
\* continuation, and bytes that do not start with 00 00 01
HdrVideo1 == <<0, 0, 1, 224, 0, 0, 128, 192, 10, 49, 0, 1, 0, 3, 17, 0, 1, 0, 1>>
HdrVideo2 == <<0, 0, 1, 224, 0, 0, 128, 192, 10, 51, 128, 1, 1, 5, 17, 0, 1, 0, 3>>
HdrAudio  == <<0, 0, 1, 192, 0, 10, 128, 128, 5, 33, 0, 1, 0, 7>>
Cont      == <<170, 187>>
BadStart  == <<0, 0, 2, 224, 0, 0>>

\* an adaptation field of length 1 (two bytes with its length byte)
AdaptField == <<1, 0>>

\* two PIDs that are not excluded, 0x0120 and 0x0121
KeptA == 256 + 32
KeptB == 256 + 33

PacketsA ==
    { MkTS(KeptA, 1, 1, HdrVideo1), MkTS(KeptA, 1, 1, HdrAudio),
      MkTS(KeptA, 0, 1, Cont),      MkTS(KeptA, 1, 1, BadStart),
      MkTS(KeptA, 0, 2, AdaptField) }

PacketsB ==
    { MkTS(KeptB, 1, 3, AdaptField \o HdrVideo2), MkTS(KeptB, 0, 1, Cont) }

PacketsExcluded == { MkTS(pid, 1, 1, HdrVideo1) : pid \in HARD_EXCLUDED }

Packets == PacketsA \cup PacketsB \cup PacketsExcluded

ModelPIDs == {PID(tp) : tp \in Packets}

\* the longest stream
MaxPackets == 5

\* TSPacket.__init__ on the bytes carved for one packet: the asserts passed
TSPacket_init(data) == Len(data) >= 4 /\ sync_byte(data) = 71

\* carved packets that differ in their adaptation_field_control, 00
\* included, and one that does not start with the sync byte
CarvedAfc ==
    { MkTS(KeptA, 1, 1, HdrVideo1), MkTS(KeptA, 0, 1, Cont), MkTS(KeptA, 0, 0, Cont),
      MkTS(8191, 0, 1, Cont), MkTS(8191, 0, 0, Cont),
      <<72>> \o Tail(MkTS(KeptA, 0, 0, Cont)) }

\* the packets a stream yields of them: those TSPacket constructs
PacketsAfc == {tp \in CarvedAfc : TSPacket_init(tp)}

NoCall == [tp |-> <<>>, skipped |-> FALSE, called |-> FALSE, pre |-> <<>>,
           returned |-> FALSE, emitted |-> FALSE, pes |-> <<>>, cnt |-> 0]

-----------------------------------------------------------------------------
(* Demux.index_streams *)

\* PAFGenerator.__init__: no PID seen; the folder holds no file
WriterInit == pafg_pids = {} /\ files = <<>>

DemuxInit ==
    /\ pc = "loop"
    /\ err = ""
    /\ excluded_pids \in {<<>>, <<KeptB>>}
    /\ pck_buffer = <<>>
    /\ drain_i = 0
    /\ WriterInit
    /\ n_read = 0
    /\ seen = [p \in ModelPIDs |-> <<>>]
    /\ last = NoCall

\* lines 120-128: one iteration of the loop over the stream
IndexPacket(tp) ==
    /\ pc = "loop"
    /\ n_read < MaxPackets
    /\ n_read' = n_read + 1
    /\ seen' = [seen EXCEPT ![PID(tp)] = Append(@, tp)]
    /\ UNCHANGED <<excluded_pids, drain_i>>
    /\ IF PID(tp) \in excluded_set(excluded_pids)
       THEN /\ last' = [NoCall EXCEPT !.tp = tp, !.skipped = TRUE]
            /\ UNCHANGED <<pc, err, pck_buffer, pafg_pids, files>>
       ELSE IF afc_bits(tp) = 0 \/ ~has_payload(tp)
       THEN /\ pc' = "raised"
            /\ err' = "AssertionError"
            /\ last' = [NoCall EXCEPT !.tp = tp]
            /\ UNCHANGED <<pck_buffer, pafg_pids, files>>
       ELSE LET r == proc_transport_packet(tp, pck_buffer)
                a == add_packet(PID(tp), PESView(r.pes), r.cnt, pafg_pids, files)
            IN  /\ pck_buffer' = r.buffer
                /\ last' = [tp |-> tp, skipped |-> FALSE, called |-> TRUE,
                            pre |-> dict_get(pck_buffer, PID(tp), <<>>),
                            returned |-> r.ok, emitted |-> r.emitted,
                            pes |-> r.pes, cnt |-> r.cnt]
                /\ IF ~r.ok
                   THEN /\ pc' = "raised"
                        /\ err' = r.err
                        /\ UNCHANGED <<pafg_pids, files>>
                   ELSE IF r.cnt > 0
                   THEN /\ pafg_pids' = a.pids
                        /\ files' = a.fs
                        /\ pc' = IF a.ok THEN "loop" ELSE "raised"
                        /\ err' = a.err
                   ELSE UNCHANGED <<pc, err, pafg_pids, files>>

\* the stream is exhausted: the loop of line 120 ends
EndOfStream ==
    /\ pc = "loop"
    /\ pc' = IF Len(pck_buffer) = 0 THEN "done" ELSE "drain"
    /\ drain_i' = 1
    /\ UNCHANGED <<err, excluded_pids, pck_buffer, pafg_pids, files, n_read, seen, last>>

\* lines 129-131: one iteration of the loop over pck_buffer.items()
DrainResidual ==
    /\ pc = "drain"
    /\ LET pid  == pck_buffer[drain_i].k
           lpck == pck_buffer[drain_i].v
           pesp == group_pes(lpck)
           a    == add_packet(pid, PESView(pesp.data), Len(lpck), pafg_pids, files)
       IN  IF ~pesp.ok
           THEN /\ pc' = "raised"
                /\ err' = pesp.err
                /\ UNCHANGED <<pafg_pids, files, drain_i>>
           ELSE /\ pafg_pids' = a.pids
                /\ files' = a.fs
                /\ err' = a.err
                /\ IF ~a.ok THEN pc' = "raised" /\ UNCHANGED drain_i
                   ELSE /\ drain_i' = drain_i + 1
                        /\ pc' = IF drain_i = Len(pck_buffer) THEN "done" ELSE "drain"
    /\ UNCHANGED <<excluded_pids, pck_buffer, n_read, seen, last>>

-----------------------------------------------------------------------------
(* muxctx.py: PAF.gen_packet_attribute, the reader *)

\* f.read(0x7FFF)
READ_SIZE == 32767

\* a small read size, under which a few records already span several reads
ScaledRead == 20

\* f.read(n) at position pos of a file
file_read(bytes, pos, n) == Slice(bytes, pos, pos + n)

\* PAF._read_header
read_header(buffer) ==
    IF ~(Len(buffer) > 2 /\ Len(buffer) > buffer[3])
    THEN [ok |-> FALSE, pid |-> 0, header |-> <<>>]
    ELSE [ok |-> TRUE, pid |-> buffer[1] * 256 + buffer[2],
          header |-> Slice(buffer, 3, 3 + buffer[3])]

ReaderIdle ==
    /\ rd_pc = "off"
    /\ rd_pid = 0
    /\ rd_size = 0
    /\ rd_fpos = 0
    /\ rd_buffer = <<>>
    /\ rd_out = <<>>
    /\ w_log = <<>>

ReaderInit ==
    /\ rd_pc = "closed"
    /\ rd_pid = 0
    /\ rd_size \in {READ_SIZE, ScaledRead}
    /\ rd_fpos = 0
    /\ rd_buffer = <<>>
    /\ rd_out = <<>>
    /\ w_log = <<>>

\* lines 71-78: open the file, read and check the header, enter the loop
ReaderOpen(pid) ==
    /\ rd_pc = "closed"
    /\ file_exists(files, pid)
    /\ LET buffer == file_read(files[pid], 0, rd_size)
           h      == read_header(buffer)
           rest   == Slice(buffer, 2 + 1 + Len(h.header), Len(buffer))
       IN  /\ rd_pid' = pid
           /\ rd_fpos' = Len(buffer)
           /\ IF ~h.ok \/ ~(0 < h.pid /\ h.pid < 8191)
              THEN rd_pc' = "raised" /\ rd_buffer' = buffer
              ELSE /\ rd_buffer' = rest
                   /\ rd_pc' = IF rest = <<>> THEN "done" ELSE "open"
    /\ UNCHANGED <<rd_size, rd_out, w_log>>

\* lines 78-83: one iteration of the loop: yield a record, refill
ReaderNext ==
    /\ rd_pc = "open"
    /\ LET pa   == from_pa(Slice(rd_buffer, 0, 15))
           b1   == Slice(rd_buffer, 15, Len(rd_buffer))
           new  == file_read(files[rd_pid], rd_fpos, rd_size)
           b2   == IF Len(b1) < 15 THEN b1 \o new ELSE b1
       IN  IF ~pa.ok
           THEN rd_pc' = "raised" /\ UNCHANGED <<rd_buffer, rd_fpos, rd_out>>
           ELSE /\ rd_out' = Append(rd_out, [tp_count |-> pa.tp_count,
                                             pck_size |-> pa.pck_size,
                                             pts |-> pa.pts, dts |-> pa.dts])
                /\ rd_buffer' = b2
                /\ rd_fpos' = IF Len(b1) < 15 THEN rd_fpos + Len(new) ELSE rd_fpos
                /\ rd_pc' = IF Len(b1) < 15 /\ ~(Len(b2) >= 15 \/ Len(b2) = 0)
                            THEN "raised"
                            ELSE IF b2 = <<>> THEN "done" ELSE "open"
    /\ UNCHANGED <<rd_pid, rd_size, w_log>>

-----------------------------------------------------------------------------
(* Writing records with PAFGenerator and reading them back *)

\* a < b, a <= b on integers given by their bits
BitsLess(a, b) == a # b /\ (CHOOSE m \in (a \cup b) \ (a \cap b) :
                              \A x \in (a \cup b) \ (a \cap b) : x <= m) \in b

BitsLeq(a, b) == a = b \/ BitsLess(a, b)

\* timestamps in [0, 2^33)
Timestamps == { {}, {0}, {1, 26, 27}, {32}, 0..32 }

\* (tp_count, pes_len) in [0, 2^16) x [0, 2^24)
Shapes == { <<0, 0>>, <<3, 410>>, <<65535, 16777215>> }

\* the records of the claim's domain: every pair of timestamps with one
\* (tp_count, pes_len), and every (tp_count, pes_len) with one pair
Records ==
    { r \in [pts : Timestamps, dts : Timestamps, shape : Shapes] :
        /\ BitsLeq(r.dts, r.pts) /\ (r.pts \cup r.dts) # {}
        /\ r.shape = <<3, 410>> \/ (r.pts = 0..32 /\ r.dts = {1, 26, 27}) }

\* the longest sequence of records written
MaxRecords == 2

\* PAFGenerator.add_packet with a packet whose pts, dts and length are r's
WriteRecord(pid, r) ==
    /\ rd_pc = "closed"
    /\ Len(w_log) < MaxRecords
    /\ LET packet == [pts |-> OptVal(r.pts), dts |-> OptVal(r.dts), len |-> r.shape[2]]
           a      == add_packet(pid, packet, r.shape[1], pafg_pids, files)
       IN  /\ a.ok
           /\ pafg_pids' = a.pids
           /\ files' = a.fs
    /\ w_log' = Append(w_log, [tp_count |-> r.shape[1], pck_size |-> r.shape[2],
                               pts |-> r.pts, dts |-> r.dts])
    /\ UNCHANGED <<rd_pc, rd_pid, rd_size, rd_fpos, rd_buffer, rd_out>>

-----------------------------------------------------------------------------
(* PAFGenerator.add_packet called with any PES, accepted or not *)

\* what add_packet reads of a PES: pts, dts and len(packet).  A PES with
\* PTS and DTS, with PTS only, with both zero, with a zero PTS only, and
\* without PTS
PesGood == [pts |-> OptVal(0..32), dts |-> OptVal({0}), len |-> 410]
PesPtsOnly == [pts |-> OptVal({32}), dts |-> OptNone, len |-> 19]
PesZero == [pts |-> OptVal({}), dts |-> OptVal({}), len |-> 19]
PesZeroPts == [pts |-> OptVal({}), dts |-> OptNone, len |-> 14]
PesNoPts == [pts |-> OptNone, dts |-> OptNone, len |-> 9]

\* the calls tried: the five PES on two PIDs with 3 packets each, a PID out
\* of range, and a packet count that does not fit 16 bits
Calls ==
    { [pid |-> p, packet |-> k, cnt |-> 3] :
        p \in {KeptA, KeptB}, k \in {PesGood, PesPtsOnly, PesZero, PesZeroPts, PesNoPts} }
    \cup { [pid |-> 8192, packet |-> PesGood, cnt |-> 3],
           [pid |-> KeptA, packet |-> PesGood, cnt |-> 65536] }

\* the longest sequence of calls
MaxCalls == 3

AddIdle == ap_pc = "off" /\ ap_log = <<>>

\* PAFGenerator(folder) on an empty folder, or on one that holds a file of
\* an earlier run
AddInit ==
    /\ ap_pc = "run"
    /\ ap_log = <<>>
    /\ pafg_pids = {}
    /\ files \in {<<>>, file_write(<<>>, KeptA, <<1, 32, 0, 80, 0, 1>>)}

\* pafg.add_packet(c.pid, c.packet, c.cnt); an exception goes to the caller,
\* who may call again
AddPacket(c) ==
    /\ ap_pc = "run"
    /\ Len(ap_log) < MaxCalls
    /\ \E a \in {add_packet(c.pid, c.packet, c.cnt, pafg_pids, files)} :
          /\ pafg_pids' = a.pids
          /\ files' = a.fs
          /\ ap_log' = Append(ap_log, [pid |-> c.pid, ok |-> a.ok, err |-> a.err])
    /\ UNCHANGED ap_pc

-----------------------------------------------------------------------------
(* PESPacket._parse_xts on its own *)

XtsIdle == xts_pc = "off" /\ xts_in = <<>> /\ xts_out = {}

XtsInit ==
    /\ xts_pc = "in"
    /\ xts_in \in {<<b0, b1, b2, b3, b4>> :
                     b0 \in 0..255, b1 \in {0, 128}, b2 \in {1, 255},
                     b3 \in {0, 255}, b4 \in {1, 254}}
    /\ xts_out = {}

ParseXts ==
    /\ xts_pc = "in"
    /\ xts_out' = parse_xts(xts_in)
    /\ xts_pc' = "out"
    /\ UNCHANGED xts_in

-----------------------------------------------------------------------------
(* streams.py: ArbitraryTransportStream, TransportStream, M2TransportStream *)
(*                                                                          *)
(* The code looks at a file in two ways only: where its bytes 'G' are, and  *)
(* how long it is.  A file of the model is lead bytes, then n packets of    *)
(* h prefix bytes, 188 bytes starting with 'G' and t trailer bytes, then    *)
(* tail bytes; the only other bytes 'G' are those at the positions stray.   *)

Stride(f) == 188 + f.h + f.t

FileLen(f) == f.lead + f.n * Stride(f) + f.tail

\* file[p] == ord(b'G')
is_G(f, p) ==
    \/ p \in f.stray
    \/ /\ p >= f.lead
       /\ p < f.lead + f.n * Stride(f)
       /\ (p - f.lead) % Stride(f) = f.h

\* f.read(16384)
PREFIX == 16384

\* file_hdl.read(0xFFFF)
CHUNK == 65535

Min(a, b) == IF a < b THEN a ELSE b

\* len(f.read(size)) with the handle at position pos
read_len(f, pos, size) == IF pos >= FileLen(f) THEN 0 ELSE Min(size, FileLen(f) - pos)

RECURSIVE Ascending(_)
Ascending(S) == IF S = {} THEN <<>>
                ELSE LET m == CHOOSE x \in S : \A y \in S : x <= y
                     IN <<m>> \o Ascending(S \ {m})

\* [m.start() for m in re.finditer(b'G', buffer)]
possible_syncs(f) ==
    LET limit == read_len(f, 0, PREFIX)
    IN Ascending({p \in f.stray \cup {f.lead + f.h + k * Stride(f) : k \in 0..(f.n - 1)} :
                    p < limit /\ is_G(f, p)})

\* np.abs(np.diff(syncs[:, None] - syncs)): every row of the matrix holds the
\* differences of consecutive positions, so the median over the matrix is
\* the median of one row
diff(ps) == [i \in 1..(Len(ps) - 1) |-> ps[i + 1] - ps[i]]

\* the k-th smallest element of the sequence d
kth(d, k) == CHOOSE v \in SeqRange(d) :
                /\ Cardinality({i \in DOMAIN d : d[i] < v}) < k
                /\ Cardinality({i \in DOMAIN d : d[i] <= v}) >= k

\* int(np.median(d)) for a non-empty d of positive integers
median(d) == IF Len(d) % 2 = 1 THEN kth(d, (Len(d) + 1) \div 2)
             ELSE (kth(d, Len(d) \div 2) + kth(d, Len(d) \div 2 + 1)) \div 2

\* range(start, stop, step)
range(start, stop, step) ==
    IF start >= stop THEN {}
    ELSE {start + j * step : j \in 0..((stop - 1 - start) \div step)}

IdRaise(e, pck_size) ==
    [exc |-> e, header |-> 0, footer |-> 0, offset |-> 0, size |-> pck_size]

\* ArbitraryTransportStream.identify from the match statement on
identify_aligned(ps, pck_size) ==
    LET header == IF pck_size = 192 THEN 4 ELSE 0
        footer == IF pck_size = 204 THEN 16 ELSE 0
        syncs == SeqRange(ps)
        max_sync == ps[Len(ps)] \div pck_size
        hits == {i \in 1..Len(ps) : range(ps[i], max_sync, pck_size) \subseteq syncs}
    IN IF hits = {} THEN IdRaise("StopIteration", pck_size)
       ELSE IF ps[CHOOSE i \in hits : \A j \in hits : i <= j] - header < 0
       THEN IdRaise("AssertionError", pck_size)
       ELSE [exc |-> "none", header |-> header, footer |-> footer,
             offset |-> ps[CHOOSE i \in hits : \A j \in hits : i <= j] - header,
             size |-> pck_size]

\* ArbitraryTransportStream.identify on the positions found; offset is
\* _fs_offset after the call (__init__ has set it to 0), size is pck_size.
\* np.median of an empty array is nan, and int(nan) a ValueError
identify_syncs(ps) ==
    IF Len(ps) = 0 THEN IdRaise("AssertionError", 0)
    ELSE IF Len(ps) = 1 THEN IdRaise("ValueError", 0)
    ELSE identify_aligned(ps, median(diff(ps)))

\* ArbitraryTransportStream.identify
identify(f) == identify_syncs(possible_syncs(f))

Classes == {"ArbitraryTransportStream", "TransportStream", "M2TransportStream"}

\* TransportStream.identify and M2TransportStream.identify after super().identify()
check_type(cls, ts_type) ==
    IF ts_type.exc # "none" \/ cls = "ArbitraryTransportStream" THEN ts_type
    ELSE IF cls = "TransportStream"
    THEN IF <<ts_type.header, ts_type.footer>> = <<0, 0>> THEN ts_type
         ELSE [ts_type EXCEPT !.exc = "TypeError"]
    ELSE IF <<ts_type.header, ts_type.footer>> = <<4, 0>> THEN ts_type
         ELSE [ts_type EXCEPT !.exc = "TypeError"]

\* self.identify() as the class overrides it
identify_of(cls, f) == check_type(cls, identify(f))

\* the values of _pck_cls
NoneCls == [name |-> "None", header |-> 0, footer |-> 0]
TSPacketCls == [name |-> "TSPacket", header |-> 0, footer |-> 0]
M2TSPacketCls == [name |-> "M2TSPacket", header |-> 4, footer |-> 0]
ArbitraryPacket(header, footer) ==
    [name |-> "ArbitraryPacket", header |-> header, footer |-> footer]

\* ArbitraryTransportStream.__init__ from the try statement on, r being the
\* outcome of self.identify(): exc is what reaches the caller
init_from(r) ==
    IF r.exc # "none"
    THEN [exc |-> "none", caught |-> r.exc, fs_offset |-> r.offset,
          pck_cls |-> NoneCls, size |-> r.size]
    ELSE [exc |-> "none", caught |-> "none", fs_offset |-> r.offset,
          pck_cls |-> IF r.header = 4 /\ r.footer = 0 THEN M2TSPacketCls
                      ELSE IF r.header = 0 /\ r.footer = 0 THEN TSPacketCls
                      ELSE ArbitraryPacket(r.header, r.footer),
          size |-> r.size]

\* ArbitraryTransportStream.__init__
new_stream(cls, f) == init_from(identify_of(cls, f))

\* the property packet_class of the three classes
packet_class(cls, stored) ==
    IF cls = "TransportStream" THEN TSPacketCls
    ELSE IF cls = "M2TransportStream" THEN M2TSPacketCls
    ELSE stored

\* packet_class.size, 0 standing for the AttributeError on None
class_size(c) == IF c.name = "None" THEN 0 ELSE 188 + c.header + c.footer

\* self.packet_class(buffer[:size_pck]) on a buffer that starts at file
\* offset base and holds at least size_pck bytes
make_packet(c, f, base) ==
    IF c.name = "ArbitraryPacket" THEN "TypeError"
    ELSE IF is_G(f, base + c.header) THEN "ok"
    ELSE "assert self.sync_byte == ord(b'G')"

\* the files and classes tried
Layouts == {<<0, 0>>, <<4, 0>>, <<0, 16>>, <<2, 0>>, <<0, 4>>}

\* packet counts: none, too few to identify, a few, and files that end
\* before and after the first chunk of CHUNK bytes
Counts == {0, 1, 2, 8, CHUNK \div 188, CHUNK \div 188 + 1}

Files ==
    {[lead |-> lead, h |-> hf[1], t |-> hf[2], n |-> n, tail |-> tail, stray |-> stray] :
        lead \in {0, 3}, hf \in Layouts, n \in Counts, tail \in {0, 1, 187},
        stray \in {{}, {1}}}

StreamIdle ==
    /\ ts_pc = "off"
    /\ ts_file = [lead |-> 0, h |-> 0, t |-> 0, n |-> 0, tail |-> 0, stray |-> {}]
    /\ ts_cls = "ArbitraryTransportStream"
    /\ fs_offset = 0
    /\ pck_cls = NoneCls
    /\ id_exc = "none"
    /\ id_size = 0
    /\ gp_fpos = 0
    /\ gp_base = 0
    /\ gp_len = 0
    /\ gp_count = 0
    /\ gp_last = 0
    /\ gp_err = ""

StreamInit ==
    /\ ts_pc = "new"
    /\ ts_file \in {f \in Files : f.stray = {} \/ f.lead > 1}
    /\ ts_cls \in Classes
    /\ fs_offset = 0
    /\ pck_cls = NoneCls
    /\ id_exc = "none"
    /\ id_size = 0
    /\ gp_fpos = 0
    /\ gp_base = 0
    /\ gp_len = 0
    /\ gp_count = 0
    /\ gp_last = 0
    /\ gp_err = ""

\* ts = cls(fpath)
Construct ==
    /\ ts_pc = "new"
    /\ \E r \in {new_stream(ts_cls, ts_file)} :
          /\ ts_pc' = IF r.exc = "none" THEN "ready" ELSE "failed"
          /\ fs_offset' = r.fs_offset
          /\ pck_cls' = r.pck_cls
          /\ id_exc' = r.caught
          /\ id_size' = r.size
    /\ UNCHANGED <<ts_file, ts_cls, gp_fpos, gp_base, gp_len, gp_count, gp_last, gp_err>>

GenRaise(e) ==
    /\ ts_pc' = "raised"
    /\ gp_err' = e
    /\ UNCHANGED <<gp_count, gp_last>>

\* gen_packets from the test of the while loop to the next yield, return
\* or exception, with the handle at fpos and the buffer holding the len
\* bytes from file offset base on
LoopHead(fpos, base, len) ==
    LET c == packet_class(ts_cls, pck_cls)
        size_pck == class_size(c)
        made == make_packet(c, ts_file, base)
    IN /\ gp_fpos' = fpos
       /\ gp_base' = base
       /\ gp_len' = len
       /\ IF len = 0
          THEN /\ ts_pc' = "stopped"
               /\ UNCHANGED <<gp_count, gp_last, gp_err>>
          ELSE IF len < size_pck THEN GenRaise("assert len(buffer) >= size_pck")
          ELSE IF made # "ok" THEN GenRaise(made)
          ELSE /\ ts_pc' = "yielded"
               /\ gp_count' = gp_count + 1
               /\ gp_last' = base
               /\ UNCHANGED gp_err

\* the first next() on ts.gen_packets()
GenFirst ==
    /\ ts_pc = "ready"
    /\ LET got == read_len(ts_file, fs_offset, CHUNK)
       IN IF packet_class(ts_cls, pck_cls).name = "None"
          THEN /\ GenRaise("AttributeError")
               /\ gp_fpos' = fs_offset + got
               /\ gp_base' = fs_offset
               /\ gp_len' = got
          ELSE LoopHead(fs_offset + got, fs_offset, got)
    /\ UNCHANGED <<ts_file, ts_cls, fs_offset, pck_cls, id_exc, id_size>>

\* every later next()
GenNext ==
    /\ ts_pc = "yielded"
    /\ LET size_pck == class_size(packet_class(ts_cls, pck_cls))
           base == gp_base + size_pck
           len == gp_len - size_pck
           got == read_len(ts_file, gp_fpos, CHUNK)
       IN IF len < size_pck
          THEN IF got = 0
               THEN /\ gp_fpos' = gp_fpos
                    /\ gp_base' = base
                    /\ gp_len' = len
                    /\ IF len = 0
                       THEN /\ ts_pc' = "stopped"
                            /\ UNCHANGED <<gp_count, gp_last, gp_err>>
                       ELSE GenRaise("assert len(buffer) == 0")
               ELSE LoopHead(gp_fpos + got, base, len + got)
          ELSE LoopHead(gp_fpos, base, len)
    /\ UNCHANGED <<ts_file, ts_cls, fs_offset, pck_cls, id_exc, id_size>>

-----------------------------------------------------------------------------
(* pespacket.py: the optional fields of a PES header, stuffing, packet_data *)

\* the optional fields as they are laid out in a header: PTS alone, PTS and
\* DTS, ESCR, ES-rate, DSM trick mode, additional copy info, previous CRC
FieldPts == <<33, 0, 1, 0, 1>>
FieldPtsDts == <<49, 0, 1, 0, 3, 17, 0, 1, 0, 1>>
FieldEscr == <<4, 0, 4, 0, 4, 1>>
FieldEsRate == <<128, 0, 1>>
FieldDsm == <<0>>
FieldCopy == <<128>>
FieldCrc == <<18, 52>>

\* PES extensions: the flags byte alone, with the sequence counter and the
\* P-STD buffer (2 + 2 bytes), with 16 bytes of private data
ExtPlain == <<14>>
ExtCounters == <<62, 128, 128, 64, 1>>
ExtPrivate == <<142>> \o [i \in 1..16 |-> i]

PesPayload == <<0, 0, 1, 9>>

\* the most stuffing bytes of a header
MaxStuffing == 1

PesShapes ==
    [sid : {224, 192, 190}, pdf : {0, 2, 3}, escr : BOOLEAN, esr : BOOLEAN,
     dsm : BOOLEAN, cpy : BOOLEAN, crc : BOOLEAN,
     ext : {<<>>, ExtPlain, ExtCounters, ExtPrivate}, nstuff : 0..MaxStuffing]

OptionalFields(s) ==
    (IF s.pdf = 2 THEN FieldPts ELSE IF s.pdf = 3 THEN FieldPtsDts ELSE <<>>)
      \o (IF s.escr THEN FieldEscr ELSE <<>>)
      \o (IF s.esr THEN FieldEsRate ELSE <<>>)
      \o (IF s.dsm THEN FieldDsm ELSE <<>>)
      \o (IF s.cpy THEN FieldCopy ELSE <<>>)
      \o (IF s.crc THEN FieldCrc ELSE <<>>)
      \o s.ext

FlagsByte(s) ==
    s.pdf * 64 + 32 * bool_int(s.escr) + 16 * bool_int(s.esr) + 8 * bool_int(s.dsm)
      + 4 * bool_int(s.cpy) + 2 * bool_int(s.crc) + bool_int(s.ext # <<>>)

\* the bytes of a PES of shape s: pes_header_data_length counts the optional
\* fields and the stuffing; a video PES declares pes_packet_length 0
PesBytes(s) ==
    LET body == <<128, FlagsByte(s), Len(OptionalFields(s)) + s.nstuff>>
                  \o OptionalFields(s) \o [i \in 1..s.nstuff |-> 255] \o PesPayload
    IN <<0, 0, 1, s.sid>> \o pack_H(IF s.sid = 224 THEN 0 ELSE Len(body)) \o body

Unread == [st |-> "unread", bytes |-> <<>>]

PesIdle ==
    /\ px_pc = "off"
    /\ px_in = <<>>
    /\ px_data = <<>>
    /\ px_stuffing = Unread
    /\ px_packet_data = Unread

\* PESPacket(data) of the bytes of one shape
PesInit ==
    /\ px_pc = "view"
    /\ px_in \in PesShapes
    /\ px_data = PESPacket(PesBytes(px_in)).data
    /\ px_stuffing = Unread
    /\ px_packet_data = Unread

\* pes.stuffing
ReadStuffing ==
    /\ px_pc = "view"
    /\ px_stuffing = Unread
    /\ px_stuffing' = stuffing(px_data)
    /\ UNCHANGED <<px_pc, px_in, px_data, px_packet_data>>

\* pes.packet_data
ReadPacketData ==
    /\ px_pc = "view"
    /\ px_packet_data = Unread
    /\ px_packet_data' = packet_data(px_data)
    /\ UNCHANGED <<px_pc, px_in, px_data, px_stuffing>>

-----------------------------------------------------------------------------
(* streams.py: Packetizer *)

\* Packetizer(max_size), scaled to the short payloads of the model
ScaledMaxSize == 22

\* the packets fed: those of the demultiplexer, and a packet without PUSI
\* whose payload is the start of a PES
Feeds == PacketsA \cup PacketsB \cup {MkTS(KeptA, 0, 1, HdrVideo1)}

\* the most packets fed to one Packetizer
MaxFeeds == 4

\* one iteration of the loop of packetize, lines 192-199, for the packet
\* sent: the value yielded and the buffer afterwards, or the exception
packetize(tp, buffer) ==
    LET pusi == payload_unit_start_indicator(tp)
        pes  == PESPacket(buffer)
        b1   == IF pusi THEN <<>> ELSE buffer
        b2   == b1 \o payload(tp)
    IN  IF pusi /\ ~pes.ok
        THEN [ok |-> FALSE, err |-> pes.err, pes |-> BytesNone, buffer |-> buffer]
        ELSE IF ~has_payload(tp)
        THEN [ok |-> FALSE, err |-> "TypeError", pes |-> BytesNone, buffer |-> b1]
        ELSE IF ~(Len(b2) < ScaledMaxSize)
        THEN [ok |-> FALSE, err |-> "AssertionError", pes |-> BytesNone, buffer |-> b2]
        ELSE [ok |-> TRUE, err |-> "",
              pes |-> IF pusi THEN BytesVal(pes.data) ELSE BytesNone, buffer |-> b2]

\* lines 201-205, after None was sent: the PES of the residual buffer, or
\* nothing when the buffer is empty or PESPacket raises
packetize_end(buffer) ==
    IF Len(buffer) > 0 /\ PESPacket(buffer).ok
    THEN BytesVal(PESPacket(buffer).data) ELSE BytesNone

NoFeed == [tp |-> <<>>, pre |-> <<>>, ok |-> TRUE, err |-> "", pes |-> BytesNone]

PkIdle ==
    /\ pk_pc = "off"
    /\ pk_buffer = <<>>
    /\ pk_fed = 0
    /\ pk_last = NoFeed

\* Packetizer() and the first next() on packetize(): the generator waits
\* at `tp = yield`
PkInit ==
    /\ pk_pc = "run"
    /\ pk_buffer = <<>>
    /\ pk_fed = 0
    /\ pk_last = NoFeed

\* gen.send(tp)
Feed(tp) ==
    /\ pk_pc = "run"
    /\ pk_fed < MaxFeeds
    /\ \E r \in {packetize(tp, pk_buffer)} :
          /\ pk_buffer' = r.buffer
          /\ pk_last' = [tp |-> tp, pre |-> pk_buffer, ok |-> r.ok, err |-> r.err,
                         pes |-> r.pes]
          /\ pk_pc' = IF r.ok THEN "run" ELSE "raised"
    /\ pk_fed' = pk_fed + 1

\* gen.send(None)
FeedNone ==
    /\ pk_pc = "run"
    /\ pk_last' = [tp |-> <<>>, pre |-> pk_buffer, ok |-> TRUE, err |-> "",
                   pes |-> packetize_end(pk_buffer)]
    /\ pk_pc' = "end"
    /\ UNCHANGED <<pk_buffer, pk_fed>>

-----------------------------------------------------------------------------
(* Specifications *)

DemuxIdle ==
    /\ pc = "off"
    /\ err = ""
    /\ excluded_pids = <<>>
    /\ pck_buffer = <<>>
    /\ drain_i = 0
    /\ n_read = 0
    /\ seen = <<>>
    /\ last = NoCall

DemuxNext ==
    \/ \E tp \in Packets : IndexPacket(tp)
    \/ EndOfStream
    \/ DrainResidual

\* the demultiplexer over a stream of packets
Init == DemuxInit /\ ReaderIdle /\ XtsIdle /\ StreamIdle /\ AddIdle /\ PesIdle /\ PkIdle

Next == DemuxNext /\ UNCHANGED <<readerVars, xtsVars, streamVars, addVars, pesVars, pkVars>>

Spec == Init /\ [][Next]_vars

\* the PAF writer and reader on one file
PafInit ==
    /\ DemuxIdle /\ WriterInit /\ ReaderInit /\ XtsIdle /\ StreamIdle /\ AddIdle
    /\ PesIdle /\ PkIdle

PafNext ==
    /\ \/ \E r \in Records : WriteRecord(KeptA, r)
       \/ ReaderOpen(KeptA) /\ UNCHANGED writerVars
       \/ ReaderNext /\ UNCHANGED writerVars
    /\ UNCHANGED <<demuxVars, xtsVars, streamVars, addVars, pesVars, pkVars>>

SpecPaf == PafInit /\ [][PafNext]_vars

\* the timestamp parser on every first byte
XtsFieldInit ==
    DemuxIdle /\ WriterInit /\ ReaderIdle /\ XtsInit /\ StreamIdle /\ AddIdle /\ PesIdle /\ PkIdle

XtsNext ==
    /\ ParseXts
    /\ UNCHANGED <<demuxVars, writerVars, readerVars, streamVars, addVars, pesVars,
                   pkVars>>

SpecXts == XtsFieldInit /\ [][XtsNext]_vars

\* one stream object over one file, iterated to its end
StreamFileInit ==
    DemuxIdle /\ WriterInit /\ ReaderIdle /\ XtsIdle /\ StreamInit /\ AddIdle /\ PesIdle /\ PkIdle

StreamNext ==
    /\ \/ Construct
       \/ GenFirst
       \/ GenNext
    /\ UNCHANGED <<demuxVars, writerVars, readerVars, xtsVars, addVars, pesVars, pkVars>>

SpecTS == StreamFileInit /\ [][StreamNext]_vars

\* the demultiplexer over a stream whose packets have any AFC
NextAfc ==
    /\ \/ \E tp \in PacketsAfc : IndexPacket(tp)
       \/ EndOfStream
       \/ DrainResidual
    /\ UNCHANGED <<readerVars, xtsVars, streamVars, addVars, pesVars, pkVars>>

SpecAfc == Init /\ [][NextAfc]_vars

\* the PAF writer called with any PES
WriterCallsInit == DemuxIdle /\ ReaderIdle /\ XtsIdle /\ StreamIdle /\ AddInit /\ PesIdle /\ PkIdle

WriterCallsNext ==
    /\ \E c \in Calls : AddPacket(c)
    /\ UNCHANGED <<demuxVars, readerVars, xtsVars, streamVars, pesVars, pkVars>>

SpecAdd == WriterCallsInit /\ [][WriterCallsNext]_vars

\* the header properties of one PES
PesViewInit ==
    /\ DemuxIdle /\ WriterInit /\ ReaderIdle /\ XtsIdle /\ StreamIdle /\ AddIdle
    /\ PesInit /\ PkIdle

PesNext ==
    /\ \/ ReadStuffing
       \/ ReadPacketData
    /\ UNCHANGED <<demuxVars, writerVars, readerVars, xtsVars, streamVars, addVars,
                   pkVars>>

SpecPes == PesViewInit /\ [][PesNext]_vars

\* one Packetizer fed packets
PacketizerInit ==
    /\ DemuxIdle /\ WriterInit /\ ReaderIdle /\ XtsIdle /\ StreamIdle /\ AddIdle
    /\ PesIdle /\ PkInit

PacketizerNext ==
    /\ \/ \E tp \in Feeds : Feed(tp)
       \/ FeedNone
    /\ UNCHANGED <<demuxVars, writerVars, readerVars, xtsVars, streamVars, addVars,
                   pesVars>>

SpecPk == PacketizerInit /\ [][PacketizerNext]_vars

-----------------------------------------------------------------------------
(* What the claims speak of *)

\* the PUSI-delimited groups of a PID's packets, in stream order: a packet
\* with PUSI opens a new group unless it is the PID's first packet
RECURSIVE GroupsFrom(_, _)
GroupsFrom(s, acc) ==
    IF s = <<>> THEN acc
    ELSE IF payload_unit_start_indicator(Head(s)) /\ acc # <<>>
         THEN GroupsFrom(Tail(s), Append(acc, <<Head(s)>>))
         ELSE GroupsFrom(Tail(s),
                         IF acc = <<>> THEN <<(<<Head(s)>>)>>
                         ELSE [acc EXCEPT ![Len(acc)] = Append(@, Head(s))])

Groups(p) == GroupsFrom(seen[p], <<>>)

\* the records of a PID's file after its 3-byte header
NRec(p) == IF p \in DOMAIN files THEN (Len(files[p]) - 3) \div 15 ELSE 0

Rec(p, k) == from_pa(Slice(files[p], 3 + 15 * (k - 1), 3 + 15 * k))

BufferOf(p) == dict_get(pck_buffer, p, <<>>)

\* the PIDs the claim excludes, spelled as the claim spells them
ClaimExcluded == {0, 31, 256, 4097, 8191} \cup SeqRange(excluded_pids)

\* the bytes of a PES built from a byte string: all of it for a video
\* stream_id, its first pes_packet_length + 6 bytes otherwise
PesBytesOf(c) == IF (c[4] \div 16) = 14 THEN c ELSE SubSeq(c, 1, c[5] * 256 + c[6] + 6)

HasPusi(s) == \E i \in 1..Len(s) : payload_unit_start_indicator(s[i])

\* C1 as stated: a PES is emitted iff PUSI and a non-empty buffer, it is the
\* concatenation of the buffered payloads, tp_count is their number, and the
\* buffer is [tp] afterwards; without PUSI the packet is only appended
C1_AsStated ==
    last.called =>
      /\ last.emitted <=> (payload_unit_start_indicator(last.tp) /\ last.pre # <<>>)
      /\ last.emitted =>
           /\ last.pes = join_payloads(last.pre)
           /\ last.cnt = Len(last.pre)
           /\ BufferOf(PID(last.tp)) = <<last.tp>>
      /\ ~payload_unit_start_indicator(last.tp) =>
           /\ ~last.emitted
           /\ BufferOf(PID(last.tp)) = Append(last.pre, last.tp)

\* C1 amended: the rule holds of every call that returns, the emitted PES
\* being the concatenation cut to pes_packet_length + 6 bytes unless the
\* stream_id is a video one; a call that does not return is one with PUSI
\* and a non-empty buffer whose concatenation the PES constructor rejects,
\* and it ends the run.  A PID without PUSI after its first packet has no
\* record while the stream lasts.
C1_Reassembly ==
    /\ last.called =>
         LET tp   == last.tp
             pusi == payload_unit_start_indicator(tp)
             c    == join_payloads(last.pre)
         IN  /\ last.returned =>
                  /\ last.emitted <=> (pusi /\ last.pre # <<>>)
                  /\ last.emitted =>
                       /\ last.pes = PesBytesOf(c)
                       /\ last.cnt = Len(last.pre)
                       /\ BufferOf(PID(tp)) = <<tp>>
                  /\ ~last.emitted => BufferOf(PID(tp)) = Append(last.pre, tp)
             /\ ~last.returned =>
                  /\ pusi /\ last.pre # <<>>
                  /\ ~PESPacket(c).ok
                  /\ pc = "raised"
                  /\ ~dict_has(pck_buffer, PID(tp))
             /\ ~pusi => last.returned /\ ~last.emitted
    /\ \A p \in ModelPIDs :
         (pc = "loop" /\ seen[p] # <<>> /\ ~HasPusi(Tail(seen[p]))) => NRec(p) = 0

\* C1 witness: a PES of two or more packets was emitted, cut short of the
\* concatenation
C1_Witness ==
    /\ last.called /\ last.emitted
    /\ Len(last.pre) >= 2
    /\ Len(last.pes) < Len(join_payloads(last.pre))

\* C2: no file, no PAF record, no buffer and no writer entry ever exists for an
\* excluded PID, and a packet of an excluded PID changes neither a buffer nor
\* a file
C2_Exclusion ==
    /\ [](\A p \in ClaimExcluded :
            /\ p \notin DOMAIN files
            /\ p \notin pafg_pids
            /\ ~dict_has(pck_buffer, p))
    /\ [][(n_read' = n_read + 1 /\ PID(last'.tp) \in ClaimExcluded)
            => UNCHANGED <<pck_buffer, files, pafg_pids>>]_vars

\* C2 witness: packets of a hard-coded and of a caller-excluded PID were
\* interleaved with those of a PID that got its file
C2_Witness ==
    /\ excluded_pids = <<KeptB>>
    /\ Len(seen[KeptB]) >= 2
    /\ seen[8191] # <<>>
    /\ NRec(KeptA) >= 1

\* what a record says of a group: the number of its packets, the length of
\* its PES and the timestamps of its PES (DTS = PTS when the PES has no DTS)
Describes(r, g) ==
    LET v == PESView(PesBytesOf(join_payloads(g)))
    IN  /\ r.ok
        /\ r.tp_count = Len(g)
        /\ r.pck_size = v.len
        /\ v.pts.st = "val" /\ r.pts = v.pts.v
        /\ r.dts = (IF v.dts.st = "val" THEN v.dts.v ELSE v.pts.v)

\* C3: the k-th record of a PID's file describes the k-th group of the PID;
\* while the stream lasts every closed group has its record, and after a
\* complete run the residual group has the last one
C3_PerPidOrder ==
    \A p \in ModelPIDs \ ClaimExcluded :
      LET gs == Groups(p)
      IN  /\ NRec(p) <= Len(gs)
          /\ \A k \in 1..NRec(p) : Describes(Rec(p, k), gs[k])
          /\ pc = "loop" => NRec(p) = (IF gs = <<>> THEN 0 ELSE Len(gs) - 1)
          /\ pc = "done" => NRec(p) = Len(gs)

\* C3 witness: after a complete run one PID has two different records and
\* another PID has one
C3_Witness ==
    /\ pc = "done"
    /\ NRec(KeptA) >= 2
    /\ Rec(KeptA, 1) # Rec(KeptA, 2)
    /\ NRec(KeptB) >= 1

\* Packetizer.__init__: max_size, taken small
max_size == 24

BufferedBytes(p) == Len(join_payloads(BufferOf(p)))

\* C6: the payload bytes buffered for a PID stay below max_size
C6_MemoryBound == \A p \in ModelPIDs : BufferedBytes(p) < max_size

\* C7: a residual group whose PES construction fails at end of stream does
\* not end the run with an error
C7_SilentDrain ==
    ~(/\ pc = "raised"
      /\ drain_i >= 1
      /\ ~group_pes(pck_buffer[drain_i].v).ok)

-----------------------------------------------------------------------------
(* The PAF round trip and the timestamp parser *)

\* C4: what the reader yields is a prefix of what was written, field for
\* field and in order, the reader never fails, and when it is done it has
\* yielded every record
C4_RoundTrip ==
    /\ rd_pc # "raised"
    /\ Len(rd_out) <= Len(w_log)
    /\ \A k \in 1..Len(rd_out) : rd_out[k] = w_log[k]
    /\ rd_pc = "done" => Len(rd_out) = Len(w_log)

\* C4 witness: the records were read back over several reads, one of them
\* with bit 32 of its PTS and an odd DTS
C4_Witness ==
    /\ rd_pc = "done"
    /\ rd_size = ScaledRead
    /\ Len(rd_out) >= 2
    /\ \E k \in 1..Len(rd_out) : 32 \in rd_out[k].pts /\ 0 \in rd_out[k].dts

\* the value the format defines for a timestamp field b0..b4
XtsOf(b) ==
    Shl(Shr(Bits(b[1]), 1) \cap Bits(7), 30)
      \cup Shl(Bits(b[2]), 22)
      \cup Shl(Shr(Bits(b[3]), 1), 15)
      \cup Shl(Bits(b[4]), 7)
      \cup Shr(Bits(b[5]), 1)

\* C5: the parsed value is ((b0>>1)&7)<<30 | b1<<22 | (b2>>1)<<15 | b3<<7 |
\* (b4>>1), hence below 2^33
C5_ParseXts ==
    xts_pc = "out" => xts_out = XtsOf(xts_in) /\ xts_out \subseteq 0..32

-----------------------------------------------------------------------------
(* Identification and packet streaming *)

Constructed == ts_pc \notin {"off", "new"}

Iterated == ts_pc \in {"yielded", "stopped", "raised"}

\* the packet size the stream carves with
Total == class_size(packet_class(ts_cls, pck_cls))

\* the number of bytes after first_packet_offset
After == FileLen(ts_file) - fs_offset

\* identification succeeded and found the layout the file was built with
IdentifiedAsBuilt ==
    /\ id_exc = "none"
    /\ ts_file.stray = {}
    /\ fs_offset = ts_file.lead
    /\ Total = Stride(ts_file)

Truncated == {"assert len(buffer) >= size_pck", "assert len(buffer) == 0"}

\* C8: on a file identified as it was built, gen_packets yields the packets
\* at first_packet_offset + k*total in file order, each one whole; it ends
\* without error exactly when the bytes after first_packet_offset are a
\* multiple of total, having yielded that many packets, and otherwise fails
\* as a truncated stream after the complete packets only
C8_StreamingEOF ==
    (Iterated /\ IdentifiedAsBuilt) =>
        /\ gp_count > 0 => /\ gp_last = fs_offset + (gp_count - 1) * Total
                           /\ gp_last + Total <= FileLen(ts_file)
        /\ ts_pc = "stopped" => /\ After % Total = 0
                                /\ gp_count = After \div Total
        /\ ts_pc = "raised" => /\ After % Total # 0
                               /\ gp_count = After \div Total
                               /\ gp_err \in Truncated

\* C9: for a file built as h prefix bytes, a 188-byte packet and t trailer
\* bytes repeated over at least the 16 KiB identification looks at,
\* identify returns (h, t), header_len + trailer_len is the detected stride
\* minus 188, and the packet size used to carve is the stride
C9_Classification ==
    (Constructed /\ ts_cls = "ArbitraryTransportStream" /\ ts_file.stray = {}
        /\ ts_file.n * Stride(ts_file) >= PREFIX) =>
        /\ id_exc = "none"
        /\ id_size = Stride(ts_file)
        /\ <<pck_cls.header, pck_cls.footer>> = <<ts_file.h, ts_file.t>>
        /\ pck_cls.header + pck_cls.footer = id_size - 188
        /\ Total = id_size

\* C10: when identification fails, with a shape mismatch in TransportStream
\* or M2TransportStream or because the file cannot be identified, the
\* constructor fails and no stream object yields a packet
C10_MismatchFatal ==
    (Constructed /\ id_exc # "none") => (ts_pc = "failed" /\ gp_count = 0)

-----------------------------------------------------------------------------
(* The PAF writer called directly *)

\* the PIDs passed to add_packet that are PIDs
PassedPids == {ap_log[i].pid : i \in 1..Len(ap_log)} \cap 0..8191

\* the number of successful calls for PID p
Accepted(p) == Cardinality({i \in 1..Len(ap_log) : ap_log[i].pid = p /\ ap_log[i].ok})

IsPrefix(a, b) == Len(a) <= Len(b) /\ SubSeq(b, 1, Len(a)) = a

\* C11: the file of each PID passed to add_packet is the 3-byte header
\* followed by one 15-byte record per successful call, each starting with
\* 0x50, so its size is 3 + 15*n; and what a call finds in the file of a PID
\* of this run is still there, unchanged, after the call
C11_FileLayout ==
    /\ [](\A p \in PassedPids :
            /\ p \in pafg_pids
            /\ file_exists(files, p)
            /\ Len(files[p]) = 3 + 15 * Accepted(p)
            /\ SubSeq(files[p], 1, 3) = <<p \div 256, p % 256, 0>>
            /\ \A k \in 0..(Accepted(p) - 1) : files[p][3 + 15 * k + 1] = 80)
    /\ [][\A p \in pafg_pids : file_exists(files', p) /\ IsPrefix(files[p], files'[p])]_vars

\* C11 witness: a PID's file holds two records and a call for that PID was
\* rejected between the two
C11_Witness ==
    /\ ap_pc = "run"
    /\ Len(ap_log) = 3
    /\ ap_log[1].pid = KeptA /\ ap_log[1].ok
    /\ ap_log[2].pid = KeptA /\ ~ap_log[2].ok
    /\ ap_log[3].pid = KeptA /\ ap_log[3].ok
    /\ Len(files[KeptA]) = 33

-----------------------------------------------------------------------------
(* The adaptation_field_control of the packets of a stream *)

\* C12: every TSPacket the stream yields has adaptation_field_control 01, 10
\* or 11: a packet with 00 is rejected when it is constructed, so the demux
\* never pulls one and never skips one, whatever its PID
C12_AfcInvariant ==
    /\ \A p \in ModelPIDs : \A i \in 1..Len(seen[p]) : afc_bits(seen[p][i]) # 0
    /\ ~(last.skipped /\ afc_bits(last.tp) = 0)

-----------------------------------------------------------------------------
(* The sync position identify chooses *)

\* the candidate positions from s on at stride S, the last candidate included
Strided(s, S, lastc) == range(s, lastc + 1, S)

\* the earliest candidate whose strided positions are all candidates
EarliestCovering(ps, S) ==
    LET G == SeqRange(ps)
        covering == {s \in G : Strided(s, S, ps[Len(ps)]) \subseteq G}
    IN CHOOSE s \in covering : \A q \in covering : s <= q

\* C13: the sync position identify chooses is the earliest 0x47 position s
\* such that s, s+S, s+2S, ... up to the last candidate are all 0x47
\* positions of the prefix, so a 0x47 byte before the first packet that has
\* no 0x47 at stride S after it is not chosen; first_packet_offset is
\* s - header_len
C13_SyncSelection ==
    (ts_pc = "ready" /\ id_exc = "none" /\ ts_file.n * Stride(ts_file) >= PREFIX) =>
        /\ fs_offset + pck_cls.header = EarliestCovering(possible_syncs(ts_file), id_size)
        /\ fs_offset + pck_cls.header \notin
              {s \in ts_file.stray : ~is_G(ts_file, s + id_size)}

-----------------------------------------------------------------------------
(* The optional fields of a PES header *)

\* the bytes the flags of shape s announce after the 9 fixed header bytes
FlaggedLength(s) ==
    5 * bool_int(s.pdf \in {2, 3}) + 5 * bool_int(s.pdf = 3) + 6 * bool_int(s.escr)
      + 3 * bool_int(s.esr) + 1 * bool_int(s.dsm) + 1 * bool_int(s.cpy)
      + 2 * bool_int(s.crc) + Len(s.ext)

StandardPes == px_pc = "view" /\ px_in.sid \notin STREAM_IDS_NO_PES_PACKET_HEADER

\* C14: for a standard-stream PES the stuffing begins at 9 + 5*PTS + 5*DTS
\* + 6*ESCR + 3*ES-rate + 1*DSM + 1*copy info + 2*CRC + length(extension);
\* for every combination of flags with pes_header_data_length equal to that
\* sum (no stuffing), stuffing is empty, no assertion fails and packet_data
\* starts at 9 + pes_header_data_length
C14_OptionalCascade ==
    StandardPes =>
        /\ pes_extension_offset(px_data) = FlaggedLength(px_in)
        /\ (px_in.nstuff = 0 /\ px_stuffing # Unread) => px_stuffing = BytesVal(<<>>)
        /\ (px_in.nstuff = 0 /\ px_packet_data # Unread) =>
              px_packet_data = BytesVal(Slice(px_data, 9 + pes_header_data_length(px_data),
                                              Len(px_data)))

-----------------------------------------------------------------------------
(* The Packetizer *)

\* the last send was a packet with PUSI and a payload, the buffer empty
FedStartOnEmpty ==
    /\ pk_last.tp # <<>>
    /\ payload_unit_start_indicator(pk_last.tp)
    /\ has_payload(pk_last.tp)
    /\ pk_last.pre = <<>>

\* C15: a packet with PUSI fed to Packetizer.packetize while the buffer is
\* empty, the first packet of a stream in particular, yields no PES and
\* raises no error, and its payload is buffered
C15_FeedOnEmpty ==
    FedStartOnEmpty =>
        /\ pk_last.ok
        /\ pk_pc = "run"
        /\ pk_last.pes = BytesNone
        /\ pk_buffer = payload(pk_last.tp)

-----------------------------------------------------------------------------
(* Packet conservation *)

\* the sum of tp_count over the first k records of a PID's file
RECURSIVE SumTpCount(_, _)
SumTpCount(p, k) == IF k = 0 THEN 0 ELSE Rec(p, k).tp_count + SumTpCount(p, k - 1)

\* the packets of a PID that wait for their record: those of its buffer,
\* until the end-of-stream loop has written the record of its entry
Waiting(p) ==
    IF pc = "loop" THEN Len(BufferOf(p))
    ELSE IF pc = "drain" /\ \E i \in drain_i..Len(pck_buffer) : pck_buffer[i].k = p
         THEN Len(BufferOf(p))
    ELSE 0

-----------------------------------------------------------------------------
(* A PES the PAF writer rejects *)

\* the step is a call of add_packet for a PID that rejected the PES: its
\* PTS absent, or its PTS and DTS both zero
RejectedCall ==
    /\ Len(ap_log') = Len(ap_log) + 1
    /\ ap_log'[Len(ap_log')].pid \in 0..8191
    /\ ap_log'[Len(ap_log')].err = "AssertionError"

\* C17 as stated: a call of add_packet that rejects the PES changes neither
\* the writer's set of PIDs nor any file, so no header-only file is left by
\* a rejected first PES
C17_AsStated == [][RejectedCall => UNCHANGED <<pafg_pids, files>>]_vars

\* C17: a call of add_packet that rejects the PES appends no record and
\* changes no file of another PID; when the PID was already seen nothing
\* changes, and when it was not the PID is marked as seen and its file is
\* created, or cut, to the 3-byte header alone
C17_RejectionTrace ==
    [][RejectedCall =>
         LET p == ap_log'[Len(ap_log')].pid
         IN  /\ pafg_pids' = pafg_pids \cup {p}
             /\ files' = IF p \in pafg_pids THEN files
                         ELSE file_write(files, p, <<p \div 256, p % 256, 0>>)]_vars

\* C17 witness: after an accepted PES of one PID the first PES of another
\* PID was rejected, and that PID is marked as seen with a header-only file
C17_Witness ==
    /\ Len(ap_log) = 2
    /\ ap_log[1].pid = KeptA /\ ap_log[1].ok
    /\ ap_log[2].pid = KeptB /\ ap_log[2].err = "AssertionError"
    /\ KeptB \in pafg_pids
    /\ files[KeptB] = <<1, 33, 0>>
    /\ Len(files[KeptA]) = 18

-----------------------------------------------------------------------------
(* Where the groups of the demux start *)

\* C18 as stated: a PID's buffer that is not empty starts with a packet
\* that has PUSI, so every group turned into a PES starts with one, also
\* for a PID whose first packet in the stream has no PUSI
C18_AsStated ==
    /\ \A p \in ModelPIDs :
         BufferOf(p) # <<>> => payload_unit_start_indicator(BufferOf(p)[1])
    /\ (last.called /\ last.pre # <<>>) => payload_unit_start_indicator(last.pre[1])

\* the list b starts with the first packet of PID p in the stream, which has
\* no PUSI, and holds the packets of p consumed before any record of p
LeadingGroup(p, b) ==
    /\ ~payload_unit_start_indicator(seen[p][1])
    /\ IsPrefix(b, seen[p])
    /\ pc = "loop" => NRec(p) = 0

\* C18: in a PID's buffer that is not empty no packet after the first has
\* PUSI, and the first has PUSI unless it is the PID's first packet in the
\* stream; so does every group the demux builds a PES from on a PUSI
C18_GroupStart ==
    /\ \A p \in ModelPIDs :
         BufferOf(p) # <<>> =>
           /\ \A i \in 2..Len(BufferOf(p)) : ~payload_unit_start_indicator(BufferOf(p)[i])
           /\ payload_unit_start_indicator(BufferOf(p)[1]) \/ LeadingGroup(p, BufferOf(p))
    /\ (last.called /\ last.pre # <<>>) =>
           /\ \A i \in 2..Len(last.pre) : ~payload_unit_start_indicator(last.pre[i])
           /\ \/ payload_unit_start_indicator(last.pre[1])
              \/ /\ ~payload_unit_start_indicator(seen[PID(last.tp)][1])
                 /\ IsPrefix(last.pre, seen[PID(last.tp)])

\* C18 witness: one PID's buffer holds its first two packets, neither with
\* PUSI, while another PID's buffer starts with a PUSI packet that closed a
\* group
C18_Witness ==
    /\ pc = "loop"
    /\ Len(BufferOf(KeptA)) = 2
    /\ ~payload_unit_start_indicator(BufferOf(KeptA)[1])
    /\ BufferOf(KeptA) = seen[KeptA]
    /\ Len(BufferOf(KeptB)) >= 1
    /\ payload_unit_start_indicator(BufferOf(KeptB)[1])
    /\ NRec(KeptB) = 1

====
